---- MODULE Spec2Model ----
(***************************************************************************)
(* State-machine model of the "Ich sehe was" game: the App component       *)
(* (round orchestration), the useSpeech hook in its two versions, the      *)
(* InteractiveImageViewer click resolution, and the collaborator calls of  *)
(* geminiService.                                                          *)
(*                                                                         *)
(* React semantics used throughout: the state updates of one handler (or   *)
(* one promise callback) are batched into one commit; after a commit the   *)
(* effects whose dependencies changed run, in declaration order, reading   *)
(* the committed values; their updates form the next commit, and so on.    *)
(* One action of the model is one handler together with every effect run   *)
(* it causes.  The only effect run that is a step of its own is the re-run *)
(* of the "AI Guessing Logic" effect caused by its own setAiGuesses, which *)
(* never ends by itself (action AiGuessEffect).                            *)
(***************************************************************************)
EXTENDS Integers, Sequences, FiniteSets, TLC

\* ------------------------------------------------------------------ bounds
MaxCalls == 1
MaxScore == 10
MaxAttempts == 5
MaxCamera == 1
MaxRecognitions == 1
MaxRounds == 2
MaxAttemptArg == 12
MaxClicks == 6
BelowOne == 2
GridMax == 4

\* ------------------------------------------------------------ GameState
START == "START"
LOADING_OBJECTS == "LOADING_OBJECTS"
USER_PICKING == "USER_PICKING"
USER_CONFIRMING == "USER_CONFIRMING"
USER_DESCRIBING == "USER_DESCRIBING"
AI_GUESSING == "AI_GUESSING"
AI_PICKING == "AI_PICKING"
USER_GUESSING == "USER_GUESSING"
ROUND_OVER == "ROUND_OVER"
ERROR == "ERROR"

GameState ==
  {START, LOADING_OBJECTS, USER_PICKING, USER_CONFIRMING, USER_DESCRIBING,
   AI_GUESSING, AI_PICKING, USER_GUESSING, ROUND_OVER, ERROR}

\* ------------------------------------------------------------- constants
INITIAL_SCORE == [user |-> 0, ai |-> 0]

\* null for an image reference; image data are 1 and 2
NoImage == 0

\* null for a GameObject (userSelection, aiSelection, clickedObject)
NoObject == [id |-> <<"null", 0>>, label |-> "", mask |-> <<>>]

\* ------------------------------------------------------------- text
\* A text is a sequence of fragments; the literals the code tests for with
\* startsWith / includes are fragments of their own.
StartsWith(text, fragment) == Len(text) > 0 /\ text[1] = fragment

Includes(text, fragment) == \E i \in 1..Len(text) : text[i] = fragment

\* String.prototype.toLowerCase on the words and labels of the model
ToLowerCase(w) ==
  CASE w = "Ball" -> "ball"
    [] w = "BALL" -> "ball"
    [] w = "Tisch" -> "tisch"
    [] w = "TISCH" -> "tisch"
    [] w = "Tasse" -> "tasse"
    [] w = "Hund" -> "hund"
    [] w = "Ich" -> "ich"
    [] w = "Rot" -> "rot"
    [] OTHER -> w

LowerText(text) == [i \in 1..Len(text) |-> ToLowerCase(text[i])]

RECURSIVE TrimStart(_)
TrimStart(text) ==
  IF Len(text) > 0 /\ text[1] = " " THEN TrimStart(Tail(text)) ELSE text

RECURSIVE TrimEnd(_)
TrimEnd(text) ==
  IF Len(text) > 0 /\ text[Len(text)] = " "
  THEN TrimEnd(SubSeq(text, 1, Len(text) - 1))
  ELSE text

Trim(text) == TrimEnd(TrimStart(text))

I_SPY_PREFIX ==
  <<"ich", " ", "sehe", " ", "was", " ", "was", " ", "du", " ", "nicht", " ",
    "siehst", " ", "und", " ", "das", " ", "ist">>

TextStartsWith(text, prefix) ==
  Len(text) >= Len(prefix) /\ SubSeq(text, 1, Len(prefix)) = prefix

CleanTranscript(t) ==
  LET lowered == Trim(LowerText(t))
  IN IF TextStartsWith(lowered, I_SPY_PREFIX)
     THEN Trim(SubSeq(lowered, Len(I_SPY_PREFIX) + 1, Len(lowered)))
     ELSE lowered

\* ------------------------------------------------------------- geometry
MinOf(S) == CHOOSE m \in S : \A n \in S : m <= n
MaxOf(S) == CHOOSE m \in S : \A n \in S : m >= n

getPolygonArea(mask) ==
  IF Len(mask) < 3 THEN 0
  ELSE LET xs == {mask[i][1] : i \in 1..Len(mask)}
           ys == {mask[i][2] : i \in 1..Len(mask)}
       IN (MaxOf(xs) - MinOf(xs)) * (MaxOf(ys) - MinOf(ys))

\* an edge counted also when the ray passes through its upper end
CrossesEdge_closed(x, y, xi, yi, xj, yj) ==
  /\ (yi >= y) # (yj >= y)
  /\ IF yj - yi > 0
     THEN (x - xi) * (yj - yi) < (xj - xi) * (y - yi)
     ELSE (x - xi) * (yj - yi) > (xj - xi) * (y - yi)

\* x < (xj - xi) * (y - yi) / (yj - yi) + xi, evaluated without division
\* (yj # yi whenever the first conjunct of the test holds)
CrossesEdge(x, y, xi, yi, xj, yj) ==
  /\ (yi > y) # (yj > y)
  /\ IF yj - yi > 0
     THEN (x - xi) * (yj - yi) < (xj - xi) * (y - yi)
     ELSE (x - xi) * (yj - yi) > (xj - xi) * (y - yi)

RECURSIVE RayCast(_, _, _, _)
RayCast(point, polygon, i, inside) ==
  IF i > Len(polygon) THEN inside
  ELSE LET j == IF i = 1 THEN Len(polygon) ELSE i - 1
           hit == CrossesEdge(point[1], point[2],
                              polygon[i][1], polygon[i][2],
                              polygon[j][1], polygon[j][2])
       IN RayCast(point, polygon, i + 1, IF hit THEN ~inside ELSE inside)

isPointInPolygon(point, polygon) == RayCast(point, polygon, 1, FALSE)

getObjectsAtPosition(objs, clickPos) ==
  SelectSeq(objs, LAMBDA obj : isPointInPolygon(clickPos, obj.mask))

\* Array.prototype.sort by ascending getPolygonArea (stable)
RECURSIVE InsertByArea(_, _)
InsertByArea(sorted, obj) ==
  IF sorted = <<>> THEN <<obj>>
  ELSE IF getPolygonArea(obj.mask) < getPolygonArea(Head(sorted).mask)
       THEN <<obj>> \o sorted
       ELSE <<Head(sorted)>> \o InsertByArea(Tail(sorted), obj)

RECURSIVE SortByArea(_)
SortByArea(objs) ==
  IF objs = <<>> THEN <<>>
  ELSE InsertByArea(SortByArea(SubSeq(objs, 1, Len(objs) - 1)), objs[Len(objs)])


\* ------------------------------------------------------- collaborator data
\* Polygons on an integer grid (normalized coordinates times 4).
SmallSquare == << <<1, 1>>, <<3, 1>>, <<3, 3>>, <<1, 3>> >>
BigSquare == << <<0, 0>>, <<4, 0>>, <<4, 4>>, <<0, 4>> >>
Segment == << <<0, 0>>, <<4, 4>> >>

\* The result detectObjects returns for a picture with objects: a list of
\* {label, mask}.  The large object comes first, the small one lies inside
\* it, the third has a degenerate mask and the label of the second in
\* another case.
Scene ==
  << [label |-> "Tisch", mask |-> BigSquare],
     [label |-> "Ball", mask |-> SmallSquare],
     [label |-> "BALL", mask |-> Segment] >>
Scenes == {Scene}

\* Results guessObjectsFromDescription can return: ranked lists of labels
\* (the masks of the candidates are never read before they are replaced).
GuessLists ==
  { <<>>, <<"ball">>, <<"TISCH", "Ball">>, <<"Hund">>, <<"Hund", "Tisch">> }

\* Transcripts the speech recognition can deliver.
Transcripts ==
  { <<"rot">>,
    <<"Ich", " ", "sehe", " ", "was", " ", "was", " ", "du", " ", "nicht", " ",
      "siehst", " ", "und", " ", "das", " ", "ist", " ", "Rot", " ">> }

\* Points the human can click (same grid as the masks): StackPoint lies in
\* the small and in the large square, <<0, 0>> in the large one only,
\* <<4, 4>> in no object.
StackPoint == <<2, 2>>
ClickPoints == { StackPoint, <<0, 0>>, <<4, 4>> }

\* SpeechRecognitionErrorEvent.error codes
SpeechErrorCodes ==
  {"network", "not-allowed", "no-speech", "audio-capture",
   "service-not-allowed", "aborted"}

\* Math.random() takes the values 0/RandomSteps .. (RandomSteps-1)/RandomSteps
RandomSteps == 6
RandomDraws == 0..(RandomSteps - 1)

\* ------------------------------------------------------------- messages
\* (umlauts transliterated, interpolated numbers left out)
MSG_DETECTING == <<"Objekte werden erkannt...">>
MSG_NO_OBJECTS == <<"Keine Objekte im Bild erkannt. Bitte versuche es mit einem anderen Bild.">>
MSG_DETECT_FAILED == <<"Objekterkennung fehlgeschlagen. Bitte versuche es erneut.">>
MSG_FRAME_CANCEL == <<"Bildauswahl abgebrochen. Lade ein neues Bild hoch oder nutze die Kamera.">>
MSG_CAMERA_OPEN == <<"Kamera wird geoeffnet...">>
MSG_CAMERA_PERMISSION == <<"Kamera-Berechtigung erforderlich">>
MSG_CHOOSE_FRAME == <<"Waehle den optimalen Bildausschnitt fuer die Objekterkennung.">>
MSG_CAMERA_FAILED == <<"Fehler beim Aufnehmen des Bildes. Bitte versuche es erneut.">>
MSG_RECORD == <<"Nimm deinen Hinweis auf: \"Ich sehe was, was du nicht siehst und das ist...\"">>
MSG_YOUR_TURN == <<"Du bist dran! Waehle ein Objekt aus dem Bild aus.">>
MSG_AI_PICKS == <<"Die KI waehlt ein Objekt aus...">>
MSG_GUESS_FAILED == <<"Die KI konnte keine Objekte erraten. Versuche es erneut.">>
MSG_DESCRIBE_FAILED == <<"Die KI konnte keine Beschreibung erstellen. Versuche es erneut.">>
FALLBACK_DESCRIPTION == "konnte keine Beschreibung erstellen"

MsgSelected(label) == <<"Du hast \"", label, "\" ausgewaehlt. Bestaetigen?">>
MsgHint(cleaned) == <<"Dein Hinweis: \"">> \o cleaned \o <<"\". KI ueberlegt...">>
MsgAiGaveUp(label) == <<"Die KI konnte dein Objekt \"", label, "\" nicht erraten.">>
MsgIsIt(label) == <<"Ist es", " \"", label, "\"?">>
MsgClue(description) == <<"Ich sehe was, was du nicht siehst, und das ist ", description>>
MsgCorrect(label) == <<"Richtig! Das war \"", label, "\". Du erhaeltst ... Punkte.">>
MsgWrong(label) == <<"Das ist \"", label, "\". Leider falsch. Versuch es nochmal!">>
MSG_AI_WON == <<"Die KI hat es im ... Versuch erraten und ... Punkte bekommen!">>

\* ------------------------------------------------------------- state
VARIABLES
  gameState, score, image, objects, message, userSelection, aiSelection,
  aiGuesses, attemptCount, isPlayerTurnToPick,
  showFrameSelector, pendingImageData,
  isListening, speechError, transcript, recognitionRef,
  clickedObject, objectsAtLastClick, currentObjectIndex,
  calls, recognitions, cameraPending,
  aiGuessRerun, presentCount,
  speechHook, speechSupported,
  nextRounds, clicksAtStackPoint, guessEvents,
  callLimit, arg, res

vars ==
  <<gameState, score, image, objects, message, userSelection, aiSelection,
    aiGuesses, attemptCount, isPlayerTurnToPick,
    showFrameSelector, pendingImageData,
    isListening, speechError, transcript, recognitionRef,
    clickedObject, objectsAtLastClick, currentObjectIndex,
    calls, recognitions, cameraPending,
    aiGuessRerun, presentCount,
    speechHook, speechSupported,
    nextRounds, clicksAtStackPoint, guessEvents,
    callLimit, arg, res>>

\* The values one render of App and of the viewer closes over, plus the
\* bookkeeping of the commit: touched = the array states that were set to a
\* new array since the last commit (a dependency compared by reference).
Cur ==
  [gameState |-> gameState, score |-> score, image |-> image,
   objects |-> objects, message |-> message,
   userSelection |-> userSelection, aiSelection |-> aiSelection,
   aiGuesses |-> aiGuesses, attemptCount |-> attemptCount,
   isPlayerTurnToPick |-> isPlayerTurnToPick, speechError |-> speechError,
   clickedObject |-> clickedObject, objectsAtLastClick |-> objectsAtLastClick,
   currentObjectIndex |-> currentObjectIndex,
   calls |-> calls, aiGuessRerun |-> aiGuessRerun,
   presentCount |-> presentCount, touched |-> {}]

Commit(r) ==
  /\ gameState' = r.gameState
  /\ score' = r.score
  /\ image' = r.image
  /\ objects' = r.objects
  /\ message' = r.message
  /\ userSelection' = r.userSelection
  /\ aiSelection' = r.aiSelection
  /\ aiGuesses' = r.aiGuesses
  /\ attemptCount' = r.attemptCount
  /\ isPlayerTurnToPick' = r.isPlayerTurnToPick
  /\ speechError' = r.speechError
  /\ clickedObject' = r.clickedObject
  /\ objectsAtLastClick' = r.objectsAtLastClick
  /\ currentObjectIndex' = r.currentObjectIndex
  /\ calls' = r.calls
  /\ aiGuessRerun' = r.aiGuessRerun
  /\ presentCount' = r.presentCount


\* ------------------------------------------------------------- helpers
\* Array.prototype.find: the first element satisfying the test, else null
FindById(objs, objectId) ==
  LET found == {i \in 1..Len(objs) : objs[i].id = objectId}
  IN IF found = {} THEN NoObject ELSE objs[MinOf(found)]

\* the labels compared as they are written
FindByLabel_exact(objs, label) ==
  LET found == {i \in 1..Len(objs) : objs[i].label = label}
  IN IF found = {} THEN NoObject ELSE objs[MinOf(found)]

FindByLabel(objs, label) ==
  LET found == {i \in 1..Len(objs) :
                  ToLowerCase(objs[i].label) = ToLowerCase(label)}
  IN IF found = {} THEN NoObject ELSE objs[MinOf(found)]

\* prev.slice(1)
Slice1(seq) == IF seq = <<>> THEN <<>> ELSE Tail(seq)

\* selectedObjectId={userSelection?.id || aiSelection?.id}
SelectedObjectId(r) ==
  IF r.userSelection # NoObject THEN r.userSelection.id
  ELSE IF r.aiSelection # NoObject THEN r.aiSelection.id
  ELSE NoObject.id

Capped(n, max) == IF n > max THEN max ELSE n

\* the last row of the table for the fifth attempt only
calculatePoints_exact(attempts) ==
  IF attempts = 1 THEN 10
  ELSE IF attempts = 2 THEN 8
  ELSE IF attempts = 3 THEN 6
  ELSE IF attempts = 4 THEN 4
  ELSE IF attempts = 5 THEN 2
  ELSE 0

\* a linear scale in place of the table
calculatePoints_linear(attempts) == 11 - attempts

\* ------------------------------------------------------------- scoring
calculatePoints(attempts) ==
  IF attempts = 1 THEN 10
  ELSE IF attempts = 2 THEN 8
  ELSE IF attempts = 3 THEN 6
  ELSE IF attempts = 4 THEN 4
  ELSE IF attempts >= 5 THEN 2
  ELSE 0

\* ------------------------------------------------------------- App
\* A collaborator call in flight, with what its completion callbacks closed
\* over and read: startNewRound's isPlayerTurnToPick (processImage) and
\* userSelection (handleSpeechResult).
Call(kind, turn, selection) ==
  [kind |-> kind, turn |-> turn, userSelection |-> selection]

\* startNewRound as created by a render in which isPlayerTurnToPick = turn
startNewRound(acc, turn) ==
  [acc EXCEPT !.userSelection = NoObject,
              !.aiSelection = NoObject,
              !.aiGuesses = <<>>,
              !.attemptCount = 0,
              !.gameState = IF turn THEN USER_PICKING ELSE AI_PICKING,
              !.message = IF turn THEN MSG_YOUR_TURN ELSE MSG_AI_PICKS,
              !.touched = @ \cup {"aiGuesses"}]

\* useEffect(..., [isPlayerTurnToPick, image])
RoundEffect(c, acc) ==
  IF c.image # NoImage THEN startNewRound(acc, c.isPlayerTurnToPick) ELSE acc

\* every speech error taken as critical
IsCriticalSpeechError_always(text) == text # <<>>

\* the test of the speechError effect for a critical error
IsCriticalSpeechError(text) ==
  \/ Includes(text, "Mikrofon-Zugriff verweigert")
  \/ Includes(text, "nicht unterstuetzt")
  \/ Includes(text, "nicht verfuegbar")

\* useEffect(..., [speechError])
SpeechErrorEffect(c, acc) ==
  IF c.speechError # <<>>
  THEN [acc EXCEPT !.message = c.speechError,
                   !.gameState = IF IsCriticalSpeechError(c.speechError)
                                 THEN ERROR ELSE @]
  ELSE acc

\* handleAiGuess as created by the render c; the functional updates act on
\* the latest queued state acc
handleAiGuess(c, acc) ==
  IF Len(c.aiGuesses) > 0 /\ c.userSelection # NoObject
  THEN LET currentGuess == c.aiGuesses[1]
           originalObject == FindByLabel(c.objects, currentGuess.label)
       IN IF originalObject # NoObject
          THEN [acc EXCEPT
                  !.aiGuesses = <<[originalObject EXCEPT !.id = Head(acc.aiGuesses).id]>>
                                \o Tail(acc.aiGuesses),
                  !.message = MsgIsIt(originalObject.label),
                  !.presentCount = Capped(@ + 1, 2),
                  !.aiGuessRerun = TRUE]
          ELSE [acc EXCEPT !.aiGuesses = Slice1(@),
                           !.touched = @ \cup {"aiGuesses"},
                           !.presentCount = 0,
                           !.aiGuessRerun = FALSE]
  ELSE IF c.userSelection # NoObject
  THEN [acc EXCEPT !.gameState = ROUND_OVER,
                   !.message = MsgAiGaveUp(c.userSelection.label),
                   !.score = [@ EXCEPT !.user = @ + 10],
                   !.aiGuessRerun = FALSE]
  ELSE [acc EXCEPT !.aiGuessRerun = FALSE]

\* "AI Guessing Logic": useEffect(..., [gameState, aiGuesses, handleAiGuess])
AiGuessingEffect(c, acc) ==
  IF c.gameState = AI_GUESSING /\ Len(c.aiGuesses) > 0
  THEN handleAiGuess(c, acc)
  ELSE [acc EXCEPT !.aiGuessRerun = FALSE, !.presentCount = 0]

\* the first object whatever the draw
RandomIndex_first(rnd, n) == 0

\* Math.floor(Math.random() * n) for the draw rnd / RandomSteps
RandomIndex(rnd, n) == (rnd * n) \div RandomSteps

\* "AI Picking Logic": useEffect(..., [gameState, objects, image, speak])
AiPickingEffect(c, acc, rnd) ==
  IF c.gameState = AI_PICKING /\ Len(c.objects) > 0 /\ c.image # NoImage
  THEN LET selection == c.objects[RandomIndex(rnd, Len(c.objects)) + 1]
       IN [acc EXCEPT
             !.aiSelection = selection,
             !.calls = Append(@, Call("describe", TRUE, NoObject))]
  ELSE acc

\* InteractiveImageViewer: useEffect(..., [selectedObjectId, objects])
SelectionEffect(c, acc) ==
  [acc EXCEPT !.clickedObject = IF SelectedObjectId(c) # NoObject.id
                                THEN FindById(c.objects, SelectedObjectId(c))
                                ELSE NoObject,
              !.objectsAtLastClick = <<>>,
              !.currentObjectIndex = 0]

\* the viewer is rendered only while image is set; its state starts anew
\* with every mount
ViewerUnmounted(acc) ==
  [acc EXCEPT !.clickedObject = NoObject,
              !.objectsAtLastClick = <<>>,
              !.currentObjectIndex = 0]

\* which effects run after the commit of r when p was the commit before
RoundEffectRuns(p, r) ==
  p.isPlayerTurnToPick # r.isPlayerTurnToPick \/ p.image # r.image
SpeechErrorEffectRuns(p, r) == p.speechError # r.speechError
AiGuessingEffectRuns(p, r) ==
  \/ p.gameState # r.gameState
  \/ "aiGuesses" \in r.touched
  \/ p.userSelection # r.userSelection
  \/ "objects" \in r.touched
AiPickingEffectRuns(p, r) ==
  \/ p.gameState # r.gameState
  \/ "objects" \in r.touched
  \/ p.image # r.image
SelectionEffectRuns(p, r) ==
  /\ r.image # NoImage
  /\ \/ p.image = NoImage
     \/ SelectedObjectId(p) # SelectedObjectId(r)
     \/ "objects" \in r.touched

\* the effects of one commit, in the order React runs them (the child's
\* before the parent's, the parent's in declaration order)
RunEffects(p, r, rnd) ==
  LET a0 == [r EXCEPT !.touched = {}]
      a1 == IF r.image = NoImage THEN ViewerUnmounted(a0)
            ELSE IF SelectionEffectRuns(p, r) THEN SelectionEffect(r, a0)
            ELSE a0
      a2 == IF RoundEffectRuns(p, r) THEN RoundEffect(r, a1) ELSE a1
      a3 == IF SpeechErrorEffectRuns(p, r) THEN SpeechErrorEffect(r, a2) ELSE a2
      a4 == IF AiGuessingEffectRuns(p, r) THEN AiGuessingEffect(r, a3) ELSE a3
      a5 == IF AiPickingEffectRuns(p, r) THEN AiPickingEffect(r, a4, rnd) ELSE a4
  IN a5

\* commits and effect runs until no effect is left to run
RECURSIVE Settle(_, _, _)
Settle(p, r, rnd) ==
  IF \/ RoundEffectRuns(p, r) \/ SpeechErrorEffectRuns(p, r)
     \/ AiGuessingEffectRuns(p, r) \/ AiPickingEffectRuns(p, r)
     \/ SelectionEffectRuns(p, r) \/ p.image # r.image
  THEN Settle(r, RunEffects(p, r, rnd), rnd)
  ELSE [r EXCEPT !.touched = {}]


\* ------------------------------------------------------------- geminiService
\* A settled promise: fulfilled with a value or rejected.
Fulfilled(v) == [settled |-> "fulfilled", value |-> v]
Rejected == [settled |-> "rejected", value |-> <<>>]

\* What the model call can do: answer with a JSON list, answer with text that
\* is not a JSON list (or nothing), or fail.
ListOutcomes(lists) ==
  {[kind |-> "list", value |-> l] : l \in lists}
    \cup {[kind |-> "unparsable", value |-> <<>>], [kind |-> "throws", value |-> <<>>]}

parseJsonResponse(outcome) ==
  IF outcome.kind = "list" THEN outcome.value ELSE <<>>

detectObjects(outcome) ==
  IF outcome.kind = "throws" THEN Rejected
  ELSE Fulfilled(parseJsonResponse(outcome))

guessObjectsFromDescription(outcome) ==
  IF outcome.kind = "throws" THEN Rejected
  ELSE Fulfilled(parseJsonResponse(outcome))

DescribeOutcomes == {"text", "empty", "throws"}

\* without the try / catch around the model call
generateDescriptionForObject_rethrows(outcome) ==
  IF outcome = "text" THEN Fulfilled("ist rot und rund")
  ELSE IF outcome = "empty" THEN Fulfilled(FALLBACK_DESCRIPTION)
  ELSE Rejected

generateDescriptionForObject(outcome) ==
  IF outcome = "text" THEN Fulfilled("ist rot und rund")
  ELSE Fulfilled(FALLBACK_DESCRIPTION)

\* ------------------------------------------------------------- useSpeech
\* the error text the hook without callback (it returns the transcript)
\* stores for an error code
SpeechErrorMessage(code) ==
  CASE code = "network" ->
         <<"Netzwerkfehler bei der Spracherkennung. Bitte ueberpruefen Sie Ihre Internetverbindung.">>
    [] code = "not-allowed" ->
         <<"Mikrofon-Zugriff verweigert", ". Bitte erlauben Sie den Mikrofon-Zugriff.">>
    [] code = "no-speech" ->
         <<"Keine Sprache erkannt. Bitte sprechen Sie deutlicher.">>
    [] code = "audio-capture" ->
         <<"Mikrofon ", "nicht verfuegbar", " oder defekt.">>
    [] code = "service-not-allowed" ->
         <<"Spracherkennungsdienst ", "nicht verfuegbar", ".">>
    [] OTHER -> <<"Spracherkennungsfehler: ", code>>

MSG_NOT_SUPPORTED == <<"Speech recognition not supported in this browser">>

\* the hook with the onResult callback stores the raw code
RawSpeechError(code) == <<code>>


\* ------------------------------------------------------------- actions
\* FrameSelector is a modal overlay: nothing below it can be clicked
ModalOpen == showFrameSelector /\ pendingImageData # NoImage

WithinBounds(r) ==
  /\ Len(r.calls) <= callLimit
  /\ r.score.user <= MaxScore
  /\ r.score.ai <= MaxScore
  /\ r.attemptCount <= MaxAttempts

\* one handler: its batched updates r, then the effects
Handle(r, rnd) ==
  LET settled == Settle(Cur, r, rnd)
  IN /\ WithinBounds(settled)
     /\ Commit(settled)

RemoveAt(seq, i) == SubSeq(seq, 1, i - 1) \o SubSeq(seq, i + 1, Len(seq))

HookVars == <<isListening, transcript, recognitionRef, recognitions>>
\* what is fixed for a run: the useSpeech version built in, whether the
\* browser has the SpeechRecognition API, the number of collaborator calls
\* the run lets be in flight, and the argument and result cells used by the
\* specifications that apply one function to drawn inputs
EnvVars == <<speechHook, speechSupported, callLimit, arg, res>>
\* bookkeeping of the run, read by no handler: the nextRound events of the
\* game so far, and the number of successive clicks the human picker has
\* made at StackPoint (0 after any other click, 4 for four or more), and the
\* number of guesses made since the guessing of the round began (rejections
\* of a presented guess since the candidates arrived, resolved clicks since
\* the clue was given)
LogVars == <<nextRounds, clicksAtStackPoint, guessEvents>>
FrameVars == <<showFrameSelector, pendingImageData>>

\* the state of App, of the hooks and of the viewer after the first render
AppInit ==
  /\ gameState = START
  /\ score = INITIAL_SCORE
  /\ image = NoImage
  /\ objects = <<>>
  /\ message = <<>>
  /\ userSelection = NoObject
  /\ aiSelection = NoObject
  /\ aiGuesses = <<>>
  /\ attemptCount = 0
  /\ isPlayerTurnToPick = TRUE
  /\ showFrameSelector = FALSE
  /\ pendingImageData = NoImage
  /\ isListening = FALSE
  /\ speechError = <<>>
  /\ transcript = <<>>
  /\ recognitionRef = FALSE
  /\ clickedObject = NoObject
  /\ objectsAtLastClick = <<>>
  /\ currentObjectIndex = 0
  /\ calls = <<>>
  /\ recognitions = <<>>
  /\ cameraPending = 0
  /\ aiGuessRerun = FALSE
  /\ presentCount = 0
  /\ nextRounds = 0
  /\ clicksAtStackPoint = 0
  /\ guessEvents = 0

Init ==
  /\ AppInit
  /\ speechHook \in {"callback", "transcript"}
  /\ speechSupported \in BOOLEAN
  /\ callLimit = MaxCalls
  /\ arg = <<>>
  /\ res = <<>>

\* the data of a newly taken or uploaded picture: it differs from the image
\* the game shows
NewImage == IF image = 1 THEN 2 ELSE 1

\* handleImageUpload and the reader.onload it registers
ImageUpload ==
  /\ gameState = START
  /\ ~ModalOpen
  /\ Handle([Cur EXCEPT !.message = MSG_CHOOSE_FRAME], -1)
  /\ pendingImageData' = NewImage
  /\ showFrameSelector' = TRUE
  /\ UNCHANGED <<LogVars, HookVars, EnvVars, cameraPending>>

\* handleCameraCapture up to its first await
CameraCapture ==
  /\ gameState = START
  /\ ~ModalOpen
  /\ cameraPending < MaxCamera
  /\ Handle([Cur EXCEPT !.message = MSG_CAMERA_OPEN], -1)
  /\ cameraPending' = cameraPending + 1
  /\ UNCHANGED <<LogVars, HookVars, EnvVars, FrameVars>>

\* handleCameraCapture: requestPermissions resolved to false
CameraDenied ==
  /\ cameraPending > 0
  /\ Handle([Cur EXCEPT !.message = MSG_CAMERA_PERMISSION], -1)
  /\ cameraPending' = cameraPending - 1
  /\ UNCHANGED <<LogVars, HookVars, EnvVars, FrameVars>>

\* handleCameraCapture: takePicture resolved to an image
CameraDone ==
  /\ cameraPending > 0
  /\ Handle([Cur EXCEPT !.message = MSG_CHOOSE_FRAME], -1)
  /\ cameraPending' = cameraPending - 1
  /\ pendingImageData' = NewImage
  /\ showFrameSelector' = TRUE
  /\ UNCHANGED <<LogVars, HookVars, EnvVars>>

\* handleCameraCapture: requestPermissions or takePicture rejected
CameraFailed ==
  /\ cameraPending > 0
  /\ Handle([Cur EXCEPT !.gameState = ERROR, !.message = MSG_CAMERA_FAILED], -1)
  /\ cameraPending' = cameraPending - 1
  /\ UNCHANGED <<LogVars, HookVars, EnvVars, FrameVars>>

\* processImage up to its await, for the render r it was created in
processImage(r, imageData) ==
  [r EXCEPT !.gameState = LOADING_OBJECTS,
            !.message = MSG_DETECTING,
            !.image = imageData,
            !.calls = Append(@, Call("detect", r.isPlayerTurnToPick, NoObject))]

\* handleFrameSelected
FrameSelected(rnd) ==
  /\ ModalOpen
  /\ Handle(processImage(Cur, pendingImageData), rnd)
  /\ showFrameSelector' = FALSE
  /\ pendingImageData' = NoImage
  /\ clicksAtStackPoint' = 0
  /\ guessEvents' = 0
  /\ UNCHANGED <<HookVars, EnvVars, cameraPending, nextRounds>>

\* handleFrameSelectorCancel
FrameSelectorCancel ==
  /\ ModalOpen
  /\ Handle([Cur EXCEPT !.message = MSG_FRAME_CANCEL], -1)
  /\ showFrameSelector' = FALSE
  /\ pendingImageData' = NoImage
  /\ UNCHANGED <<LogVars, HookVars, EnvVars, cameraPending>>

\* detected.map((obj, index) => ({...obj, id: `obj-${index}`, color}))
GameObjects(detected) ==
  [i \in 1..Len(detected) |->
     [id |-> <<"obj", i - 1>>, label |-> detected[i].label, mask |-> detected[i].mask]]

\* processImage after its await: the call issued with closure call settles
processImageSettled(r, call, result) ==
  IF result.settled = "rejected"
  THEN [r EXCEPT !.gameState = ERROR, !.message = MSG_DETECT_FAILED]
  ELSE LET gameObjects == GameObjects(result.value)
       IN IF Len(gameObjects) = 0
          THEN [r EXCEPT !.gameState = ERROR,
                         !.message = MSG_NO_OBJECTS,
                         !.image = NoImage]
          ELSE startNewRound([r EXCEPT !.objects = gameObjects,
                                       !.touched = @ \cup {"objects"}],
                             call.turn)

DetectDone(i, outcome, rnd) ==
  /\ i \in 1..Len(calls)
  /\ calls[i].kind = "detect"
  /\ Handle(processImageSettled([Cur EXCEPT !.calls = RemoveAt(@, i)],
                                calls[i], detectObjects(outcome)), rnd)
  /\ clicksAtStackPoint' = 0
  /\ guessEvents' = 0
  /\ UNCHANGED <<HookVars, EnvVars, FrameVars, cameraPending, nextRounds>>


\* the selection changed by a click while the clue is being recorded too
handleMaskClick_whileDescribing(r, objectId) ==
  LET clicked == FindById(r.objects, objectId)
  IN IF clicked = NoObject THEN r
     ELSE IF r.gameState = USER_PICKING
     THEN [r EXCEPT !.userSelection = clicked,
                    !.gameState = USER_CONFIRMING,
                    !.message = MsgSelected(clicked.label)]
     ELSE IF r.gameState \in {USER_CONFIRMING, USER_DESCRIBING}
     THEN [r EXCEPT !.userSelection = clicked,
                    !.message = MsgSelected(clicked.label)]
     ELSE IF r.gameState = USER_GUESSING /\ r.aiSelection # NoObject
     THEN IF clicked.id = r.aiSelection.id
          THEN LET points == calculatePoints(r.attemptCount + 1)
               IN [r EXCEPT !.attemptCount = @ + 1,
                            !.score = [@ EXCEPT !.user = @ + points],
                            !.gameState = ROUND_OVER,
                            !.message = MsgCorrect(r.aiSelection.label)]
          ELSE [r EXCEPT !.attemptCount = @ + 1,
                         !.message = MsgWrong(clicked.label)]
     ELSE r

\* handleMaskClick as created by the render r
handleMaskClick(r, objectId) ==
  LET clicked == FindById(r.objects, objectId)
  IN IF clicked = NoObject THEN r
     ELSE IF r.gameState = USER_PICKING
     THEN [r EXCEPT !.userSelection = clicked,
                    !.gameState = USER_CONFIRMING,
                    !.message = MsgSelected(clicked.label)]
     ELSE IF r.gameState = USER_CONFIRMING
     THEN [r EXCEPT !.userSelection = clicked,
                    !.message = MsgSelected(clicked.label)]
     ELSE IF r.gameState = USER_GUESSING /\ r.aiSelection # NoObject
     THEN IF clicked.id = r.aiSelection.id
          THEN LET points == calculatePoints(r.attemptCount + 1)
               IN [r EXCEPT !.attemptCount = @ + 1,
                            !.score = [@ EXCEPT !.user = @ + points],
                            !.gameState = ROUND_OVER,
                            !.message = MsgCorrect(r.aiSelection.label)]
          ELSE [r EXCEPT !.attemptCount = @ + 1,
                         !.message = MsgWrong(clicked.label)]
     ELSE r

\* disabled={![USER_PICKING, USER_GUESSING, USER_CONFIRMING].includes(gameState)}
ViewerDisabled(r) ==
  r.gameState \notin {USER_PICKING, USER_GUESSING, USER_CONFIRMING}

\* the hit sets compared by their length only
isSamePosition_sameLength(objectsAtClick, lastClick) ==
  /\ Len(lastClick) > 0
  /\ Len(objectsAtClick) = Len(lastClick)

\* objectsAtClick.every(obj => objectsAtLastClick.some(lastObj => lastObj.id === obj.id))
isSamePosition(objectsAtClick, lastClick) ==
  /\ Len(lastClick) > 0
  /\ Len(objectsAtClick) = Len(lastClick)
  /\ \A i \in 1..Len(objectsAtClick) :
       \E j \in 1..Len(lastClick) : lastClick[j].id = objectsAtClick[i].id

\* handlePolygonClick for a click at clickPos, with the onMaskClick it calls
handlePolygonClick(r, clickPos) ==
  IF ViewerDisabled(r) THEN r
  ELSE LET objectsAtClick == SortByArea(getObjectsAtPosition(r.objects, clickPos))
       IN IF Len(objectsAtClick) = 0
          THEN [r EXCEPT !.clickedObject = NoObject,
                         !.objectsAtLastClick = <<>>,
                         !.currentObjectIndex = 0]
          ELSE IF isSamePosition(objectsAtClick, r.objectsAtLastClick)
                  /\ Len(objectsAtClick) > 1
          THEN LET nextIndex == (r.currentObjectIndex + 1) % Len(objectsAtClick)
               IN handleMaskClick(
                    [r EXCEPT !.currentObjectIndex = nextIndex,
                              !.clickedObject = objectsAtClick[nextIndex + 1]],
                    objectsAtClick[nextIndex + 1].id)
          ELSE handleMaskClick(
                 [r EXCEPT !.objectsAtLastClick = objectsAtClick,
                           !.currentObjectIndex = 0,
                           !.clickedObject = objectsAtClick[1]],
                 objectsAtClick[1].id)

\* a click on the polygons of the viewer at clickPos
MaskClick(clickPos) ==
  /\ image # NoImage
  /\ objects # <<>>
  /\ ~ViewerDisabled(Cur)
  /\ ~ModalOpen
  /\ Handle(handlePolygonClick(Cur, clickPos), -1)
  /\ clicksAtStackPoint' =
       IF clickPos = StackPoint /\ gameState \in {USER_PICKING, USER_CONFIRMING}
       THEN Capped(clicksAtStackPoint + 1, 4)
       ELSE 0
  /\ guessEvents' =
       IF gameState = USER_GUESSING /\ getObjectsAtPosition(objects, clickPos) # <<>>
       THEN Capped(guessEvents + 1, MaxAttempts + 1)
       ELSE guessEvents
  /\ UNCHANGED <<HookVars, EnvVars, FrameVars, cameraPending, nextRounds>>

handleConfirmSelection(r) ==
  IF r.userSelection # NoObject
  THEN [r EXCEPT !.gameState = USER_DESCRIBING, !.message = MSG_RECORD]
  ELSE r

ConfirmSelection ==
  /\ gameState = USER_CONFIRMING
  /\ ~ModalOpen
  /\ Handle(handleConfirmSelection(Cur), -1)
  /\ clicksAtStackPoint' = 0
  /\ UNCHANGED <<HookVars, EnvVars, FrameVars, cameraPending, nextRounds, guessEvents>>

\* a recognition session; image and userSelection are the values the
\* onResult callback (handleSpeechResult) of its render closed over
Recognition(status) ==
  [status |-> status, image |-> image, userSelection |-> userSelection]

\* handleStartRecording with startListening of the hook without callback
StartRecordingTranscript ==
  /\ speechHook = "transcript"
  /\ IF isListening
     THEN /\ Handle([Cur EXCEPT !.message = MSG_RECORD], -1)
          /\ UNCHANGED HookVars
     ELSE IF ~speechSupported
     THEN /\ Handle([Cur EXCEPT !.message = MSG_RECORD,
                                !.speechError = MSG_NOT_SUPPORTED], -1)
          /\ isListening' = FALSE
          /\ transcript' = <<>>
          /\ UNCHANGED <<recognitionRef, recognitions>>
     ELSE /\ Len(recognitions) < MaxRecognitions
          /\ Handle([Cur EXCEPT !.message = MSG_RECORD, !.speechError = <<>>], -1)
          /\ isListening' = TRUE
          /\ transcript' = <<>>
          /\ recognitionRef' = TRUE
          /\ recognitions' = Append(recognitions, Recognition("live"))

\* handleStartRecording with startListening of the hook with callback
StartRecordingCallback ==
  /\ speechHook = "callback"
  /\ IF ~speechSupported \/ isListening \/ recognitionRef
     THEN /\ Handle([Cur EXCEPT !.message = MSG_RECORD], -1)
          /\ UNCHANGED HookVars
     ELSE /\ Len(recognitions) < MaxRecognitions
          /\ Handle([Cur EXCEPT !.message = MSG_RECORD, !.speechError = <<>>], -1)
          /\ recognitionRef' = TRUE
          /\ recognitions' = Append(recognitions, Recognition("starting"))
          /\ UNCHANGED <<isListening, transcript>>

\* the "Hinweis aufnehmen" button (disabled while isListening)
StartRecording ==
  /\ gameState = USER_DESCRIBING
  /\ ~isListening
  /\ ~ModalOpen
  /\ StartRecordingTranscript \/ StartRecordingCallback
  /\ UNCHANGED <<LogVars, EnvVars, FrameVars, cameraPending>>

\* recognition.onstart of the hook with callback
SpeechStart(i) ==
  /\ i \in 1..Len(recognitions)
  /\ recognitions[i].status = "starting"
  /\ speechHook = "callback"
  /\ isListening' = TRUE
  /\ recognitions' = [recognitions EXCEPT ![i].status = "live"]
  /\ Handle(Cur, -1)
  /\ UNCHANGED <<LogVars, transcript, recognitionRef, EnvVars, FrameVars, cameraPending>>

\* handleSpeechResult as created by a render with the given image and
\* userSelection; outcome is what the model call will do
handleSpeechResult(r, text, capturedImage, capturedSelection) ==
  LET cleanedTranscript == CleanTranscript(text)
      r1 == [r EXCEPT !.message = MsgHint(cleanedTranscript),
                      !.gameState = AI_GUESSING]
  IN IF capturedImage # NoImage /\ capturedSelection # NoObject
     THEN [r1 EXCEPT !.calls = Append(@, Call("guess", TRUE, capturedSelection))]
     ELSE r1

\* recognition.onresult
SpeechResult(i, text) ==
  /\ i \in 1..Len(recognitions)
  /\ recognitions[i].status = "live"
  /\ IF speechHook = "callback"
     THEN /\ Handle(handleSpeechResult(Cur, text, recognitions[i].image,
                                       recognitions[i].userSelection), -1)
          /\ recognitions' = [recognitions EXCEPT ![i].status = "closing"]
          /\ UNCHANGED transcript
     ELSE /\ Handle(Cur, -1)
          /\ transcript' = text
          /\ UNCHANGED recognitions
  /\ UNCHANGED <<LogVars, isListening, recognitionRef, EnvVars, FrameVars, cameraPending>>

\* recognition.onerror
SpeechError(i, code) ==
  /\ i \in 1..Len(recognitions)
  /\ recognitions[i].status \in {"starting", "live"}
  /\ Handle([Cur EXCEPT !.speechError = IF speechHook = "callback"
                                        THEN RawSpeechError(code)
                                        ELSE SpeechErrorMessage(code)], -1)
  /\ isListening' = FALSE
  /\ recognitionRef' = IF speechHook = "callback" THEN FALSE ELSE recognitionRef
  /\ recognitions' = [recognitions EXCEPT ![i].status = "closing"]
  /\ UNCHANGED <<LogVars, transcript, EnvVars, FrameVars, cameraPending>>

\* recognition.onend
SpeechEnd(i) ==
  /\ i \in 1..Len(recognitions)
  /\ recognitions[i].status \in {"live", "closing"}
  /\ Handle(Cur, -1)
  /\ isListening' = FALSE
  /\ recognitionRef' = IF speechHook = "callback" THEN FALSE ELSE recognitionRef
  /\ recognitions' = RemoveAt(recognitions, i)
  /\ UNCHANGED <<LogVars, transcript, EnvVars, FrameVars, cameraPending>>


\* guessedObjects.map((g, i) => ({...g, id: `guess-${i}`, color}))
MappedGuesses(guessedObjects) ==
  [i \in 1..Len(guessedObjects) |->
     [id |-> <<"guess", i - 1>>, label |-> guessedObjects[i], mask |-> <<>>]]

\* without the branch for an empty list of candidates
handleSpeechResultSettled_noEmptyCase(r, call, result) ==
  IF result.settled = "rejected"
  THEN [r EXCEPT !.gameState = ERROR, !.message = MSG_GUESS_FAILED]
  ELSE [r EXCEPT !.aiGuesses = MappedGuesses(result.value),
                 !.attemptCount = 1,
                 !.touched = @ \cup {"aiGuesses"}]

\* the then / catch callbacks of handleSpeechResult for the call it issued
handleSpeechResultSettled(r, call, result) ==
  IF result.settled = "rejected"
  THEN [r EXCEPT !.gameState = ERROR, !.message = MSG_GUESS_FAILED]
  ELSE IF Len(result.value) = 0
  THEN [r EXCEPT !.gameState = ROUND_OVER,
                 !.message = MsgAiGaveUp(call.userSelection.label),
                 !.score = [@ EXCEPT !.user = @ + 10]]
  ELSE [r EXCEPT !.aiGuesses = MappedGuesses(result.value),
                 !.attemptCount = 1,
                 !.touched = @ \cup {"aiGuesses"}]

GuessDone(i, outcome) ==
  /\ i \in 1..Len(calls)
  /\ calls[i].kind = "guess"
  /\ Handle(handleSpeechResultSettled([Cur EXCEPT !.calls = RemoveAt(@, i)],
                                      calls[i],
                                      guessObjectsFromDescription(outcome)), -1)
  /\ guessEvents' = 0
  /\ UNCHANGED <<nextRounds, clicksAtStackPoint, HookVars, EnvVars, FrameVars,
                 cameraPending>>

\* the then / catch callbacks of the "AI Picking Logic" effect
AiPickingSettled(r, result) ==
  IF result.settled = "rejected"
  THEN [r EXCEPT !.gameState = ERROR, !.message = MSG_DESCRIBE_FAILED]
  ELSE [r EXCEPT !.message = MsgClue(result.value),
                 !.gameState = USER_GUESSING,
                 !.attemptCount = 0]

DescribeDone(i, outcome) ==
  /\ i \in 1..Len(calls)
  /\ calls[i].kind = "describe"
  /\ Handle(AiPickingSettled([Cur EXCEPT !.calls = RemoveAt(@, i)],
                             generateDescriptionForObject(outcome)), -1)
  /\ guessEvents' = 0
  /\ UNCHANGED <<nextRounds, clicksAtStackPoint, HookVars, EnvVars, FrameVars,
                 cameraPending>>

handleYes(r) ==
  LET points == calculatePoints(r.attemptCount)
  IN [r EXCEPT !.score = [@ EXCEPT !.ai = @ + points],
               !.gameState = ROUND_OVER,
               !.message = MSG_AI_WON]

\* the rejected guess dropped without counting the attempt
handleNo_keepsCount(r) ==
  [r EXCEPT !.aiGuesses = Slice1(@),
            !.touched = @ \cup {"aiGuesses"}]

handleNo(r) ==
  [r EXCEPT !.attemptCount = @ + 1,
            !.aiGuesses = Slice1(@),
            !.touched = @ \cup {"aiGuesses"}]

\* gameState === AI_GUESSING && message.startsWith("Ist es")
AnswerButtonsShown ==
  gameState = AI_GUESSING /\ StartsWith(message, "Ist es")

Yes ==
  /\ AnswerButtonsShown
  /\ ~ModalOpen
  /\ Handle(handleYes(Cur), -1)
  /\ UNCHANGED <<LogVars, HookVars, EnvVars, FrameVars, cameraPending>>

No ==
  /\ AnswerButtonsShown
  /\ ~ModalOpen
  /\ Handle(handleNo(Cur), -1)
  /\ guessEvents' = guessEvents + 1
  /\ UNCHANGED <<nextRounds, clicksAtStackPoint, HookVars, EnvVars, FrameVars,
                 cameraPending>>

\* the AI made the picker of every next round
handleNextRound_ai(r) == [r EXCEPT !.isPlayerTurnToPick = FALSE]

handleNextRound(r) == [r EXCEPT !.isPlayerTurnToPick = ~@]

NextRound(rnd) ==
  /\ gameState = ROUND_OVER
  /\ ~ModalOpen
  /\ nextRounds < MaxRounds
  /\ Handle(handleNextRound(Cur), rnd)
  /\ nextRounds' = nextRounds + 1
  /\ clicksAtStackPoint' = 0
  /\ guessEvents' = 0
  /\ UNCHANGED <<HookVars, EnvVars, FrameVars, cameraPending>>

\* the picker role left as it is
resetGame_keepsTurn(r) ==
  [r EXCEPT !.gameState = START,
            !.score = INITIAL_SCORE,
            !.image = NoImage,
            !.objects = <<>>,
            !.userSelection = NoObject,
            !.aiSelection = NoObject,
            !.aiGuesses = <<>>,
            !.message = <<>>,
            !.touched = @ \cup {"objects", "aiGuesses"}]

resetGame(r) ==
  [r EXCEPT !.gameState = START,
            !.score = INITIAL_SCORE,
            !.image = NoImage,
            !.objects = <<>>,
            !.userSelection = NoObject,
            !.aiSelection = NoObject,
            !.aiGuesses = <<>>,
            !.isPlayerTurnToPick = TRUE,
            !.message = <<>>,
            !.touched = @ \cup {"objects", "aiGuesses"}]

\* "Neues Spiel" (ROUND_OVER) and "Neu starten" (ERROR)
ResetGame ==
  /\ gameState \in {ROUND_OVER, ERROR}
  /\ ~ModalOpen
  /\ Handle(resetGame(Cur), -1)
  /\ nextRounds' = 0
  /\ clicksAtStackPoint' = 0
  /\ guessEvents' = 0
  /\ UNCHANGED <<HookVars, EnvVars, FrameVars, cameraPending>>

\* the "AI Guessing Logic" effect running again after its own setAiGuesses
AiGuessEffect ==
  /\ aiGuessRerun
  /\ Handle(AiGuessingEffect(Cur, Cur), -1)
  /\ UNCHANGED <<LogVars, HookVars, EnvVars, FrameVars, cameraPending>>

Next ==
  \/ ImageUpload
  \/ CameraCapture
  \/ CameraDenied
  \/ CameraDone
  \/ CameraFailed
  \/ \E rnd \in RandomDraws : FrameSelected(rnd)
  \/ FrameSelectorCancel
  \/ \E i \in 1..MaxCalls, outcome \in ListOutcomes(Scenes \cup {<<>>}), rnd \in RandomDraws :
       DetectDone(i, outcome, rnd)
  \/ \E clickPos \in ClickPoints : MaskClick(clickPos)
  \/ ConfirmSelection
  \/ StartRecording
  \/ \E i \in 1..MaxRecognitions : SpeechStart(i)
  \/ \E i \in 1..MaxRecognitions, text \in Transcripts : SpeechResult(i, text)
  \/ \E i \in 1..MaxRecognitions, code \in SpeechErrorCodes : SpeechError(i, code)
  \/ \E i \in 1..MaxRecognitions : SpeechEnd(i)
  \/ \E i \in 1..MaxCalls, outcome \in ListOutcomes(GuessLists) : GuessDone(i, outcome)
  \/ \E i \in 1..MaxCalls, outcome \in DescribeOutcomes : DescribeDone(i, outcome)
  \/ Yes
  \/ No
  \/ \E rnd \in RandomDraws : NextRound(rnd)
  \/ ResetGame
  \/ AiGuessEffect

Spec == Init /\ [][Next]_vars

\* ------------------------------------------------ two calls in flight
\* The game up to the description of the human's object, in a browser
\* without speech recognition, with one more collaborator call allowed in
\* flight than in Spec.
InitRace ==
  /\ AppInit
  /\ speechHook \in {"callback", "transcript"}
  /\ speechSupported = FALSE
  /\ callLimit = MaxCalls + 1
  /\ arg = <<>>
  /\ res = <<>>

NextRace ==
  \/ ImageUpload
  \/ CameraCapture
  \/ CameraDenied
  \/ CameraDone
  \/ CameraFailed
  \/ \E rnd \in RandomDraws : FrameSelected(rnd)
  \/ FrameSelectorCancel
  \/ \E i \in 1..(MaxCalls + 1), outcome \in ListOutcomes(Scenes \cup {<<>>}),
        rnd \in RandomDraws :
       DetectDone(i, outcome, rnd)
  \/ \E clickPos \in ClickPoints : MaskClick(clickPos)
  \/ ConfirmSelection
  \/ StartRecording
  \/ ResetGame

SpecRace == InitRace /\ [][NextRace]_vars

\* -------------------------------------- a detection result arriving late
\* One human round ended by an empty list of candidates and the AI's round
\* after it, from a camera picture and an uploaded picture chosen one after
\* the other, with one more collaborator call allowed in flight than in Spec.
InitLate ==
  /\ AppInit
  /\ speechHook = "callback"
  /\ speechSupported = TRUE
  /\ callLimit = MaxCalls + 1
  /\ arg = <<>>
  /\ res = <<>>

NextLate ==
  \/ ImageUpload
  \/ CameraCapture
  \/ CameraDone
  \/ \E rnd \in RandomDraws : FrameSelected(rnd)
  \/ \E i \in 1..(MaxCalls + 1), rnd \in RandomDraws :
       DetectDone(i, [kind |-> "list", value |-> Scene], rnd)
  \/ \E clickPos \in ClickPoints : MaskClick(clickPos)
  \/ ConfirmSelection
  \/ StartRecording
  \/ \E i \in 1..MaxRecognitions : SpeechStart(i)
  \/ \E i \in 1..MaxRecognitions, text \in Transcripts : SpeechResult(i, text)
  \/ \E i \in 1..(MaxCalls + 1) : GuessDone(i, [kind |-> "list", value |-> <<>>])
  \/ \E i \in 1..(MaxCalls + 1), outcome \in DescribeOutcomes : DescribeDone(i, outcome)
  \/ \E rnd \in RandomDraws : NextRound(rnd)

SpecLate == InitLate /\ [][NextLate]_vars

\* ------------------------------------------- functions on drawn inputs
\* everything but the argument and result cells
GameVars ==
  <<gameState, score, image, objects, message, userSelection, aiSelection,
    aiGuesses, attemptCount, isPlayerTurnToPick, speechError,
    clickedObject, objectsAtLastClick, currentObjectIndex,
    calls, cameraPending, aiGuessRerun, presentCount,
    HookVars, FrameVars, LogVars, speechHook, speechSupported, callLimit>>

\* the application at rest, with arg drawn from inputs
InitApplied(inputs) ==
  /\ AppInit
  /\ speechHook = "callback"
  /\ speechSupported = TRUE
  /\ callLimit = MaxCalls
  /\ arg \in inputs
  /\ res = <<>>

\* calculatePoints applied to two attempt numbers
InitPoints == InitApplied((1..MaxAttemptArg) \X (1..MaxAttemptArg))

ApplyCalculatePoints ==
  /\ res = <<>>
  /\ res' = <<calculatePoints(arg[1]), calculatePoints(arg[2])>>
  /\ UNCHANGED <<GameVars, arg>>

NextPoints == ApplyCalculatePoints

SpecPoints == InitPoints /\ [][NextPoints]_vars

\* calculatePoints on attempt numbers from below 1 on
InitPointsAny ==
  InitApplied(((1 - BelowOne)..MaxAttemptArg) \X ((1 - BelowOne)..MaxAttemptArg))

SpecPointsAny == InitPointsAny /\ [][NextPoints]_vars

\* handlePolygonClick applied again and again at one point, the state of the
\* viewer carried from click to click.  The picture has three nested squares
\* and a fourth square in a corner of the largest.
MidSquare == << <<1, 1>>, <<4, 1>>, <<4, 4>>, <<1, 4>> >>
CornerSquare == << <<0, 0>>, <<1, 0>>, <<1, 1>>, <<0, 1>> >>
StackScene ==
  GameObjects(<< [label |-> "Tisch", mask |-> BigSquare],
                 [label |-> "Teller", mask |-> MidSquare],
                 [label |-> "Ball", mask |-> SmallSquare],
                 [label |-> "Stift", mask |-> CornerSquare] >>)

\* hit sets of 3, 3, 2, 2, 1 and 0 objects
StackClickPoints == { <<2, 2>>, <<1, 1>>, <<3, 3>>, <<0, 0>>, <<0, 2>>, <<4, 4>> }

HitSet(clickPos) == SortByArea(getObjectsAtPosition(StackScene, clickPos))

\* the states the viewer can be in before a click: nothing kept, or the hit
\* set of an earlier click with an index into it
ViewerStates ==
  { [lastClick |-> <<>>, index |-> 0, selected |-> NoObject,
     count |-> 0, first |-> NoObject] }
    \cup UNION { { [lastClick |-> HitSet(q), index |-> k,
                      selected |-> HitSet(q)[k + 1],
                      count |-> 0, first |-> NoObject] :
                    k \in 0..(Len(HitSet(q)) - 1) } : q \in StackClickPoints }

InitClick ==
  /\ AppInit
  /\ speechHook = "callback"
  /\ speechSupported = TRUE
  /\ callLimit = MaxCalls
  /\ arg \in StackClickPoints
  /\ res \in ViewerStates

ApplyClick ==
  /\ res.count < MaxClicks
  /\ LET out == handlePolygonClick(
                  [Cur EXCEPT !.gameState = USER_CONFIRMING,
                              !.objects = StackScene,
                              !.objectsAtLastClick = res.lastClick,
                              !.currentObjectIndex = res.index,
                              !.clickedObject = res.selected],
                  arg)
     IN res' = [lastClick |-> out.objectsAtLastClick,
                index |-> out.currentObjectIndex,
                selected |-> out.clickedObject,
                count |-> res.count + 1,
                first |-> IF res.count = 0 THEN out.clickedObject ELSE res.first]
  /\ UNCHANGED <<GameVars, arg>>

NextClick == ApplyClick

SpecClick == InitClick /\ [][NextClick]_vars

\* --------------------------------------------- the objects under a point
\* getObjectsAtPosition and the sort of handlePolygonClick on drawn object
\* lists and points of the grid and of a margin around it.
Triangle == << <<0, 0>>, <<4, 0>>, <<0, 4>> >>
Dot == << <<2, 2>> >>

HitScenes ==
  { GameObjects(Scene),
    StackScene,
    GameObjects(<< [label |-> "Segel", mask |-> Triangle],
                   [label |-> "Ball", mask |-> SmallSquare],
                   [label |-> "Punkt", mask |-> Dot],
                   [label |-> "Nichts", mask |-> <<>>] >>),
    GameObjects(<< [label |-> "Tisch", mask |-> BigSquare],
                   [label |-> "Segel", mask |-> Triangle],
                   [label |-> "Strich", mask |-> Segment],
                   [label |-> "Stift", mask |-> CornerSquare] >>) }

HitPoints == ((0 - 1)..(GridMax + 1)) \X ((0 - 1)..(GridMax + 1))

InitHit == InitApplied(HitScenes \X HitPoints)

ApplyHitTest ==
  /\ res = <<>>
  /\ res' = <<SortByArea(getObjectsAtPosition(arg[1], arg[2]))>>
  /\ UNCHANGED <<GameVars, arg>>

NextHit == ApplyHitTest

SpecHit == InitHit /\ [][NextHit]_vars

\* ------------------------------------------------ a click in every phase
\* handlePolygonClick (the click on a polygon of the viewer) and
\* handleMaskClick (what the viewer calls) applied to the game with a
\* picture and its objects, in every phase in which the viewer is rendered.
FrameStates ==
  { st \in [gameState : GameState \ {START},
            userSelection : {NoObject, GameObjects(Scene)[1]},
            aiSelection : {NoObject, GameObjects(Scene)[2]},
            aiGuesses : {<<>>, MappedGuesses(<<"ball">>)},
            attemptCount : 0..2,
            score : {[user |-> 0, ai |-> 0], [user |-> 10, ai |-> 8]}] :
      /\ st.userSelection = NoObject \/ st.aiSelection = NoObject
      /\ st.aiGuesses # <<>> => st.userSelection # NoObject }

\* the application in the drawn state
FrameRecord(st) ==
  [Cur EXCEPT !.image = NewImage,
              !.objects = GameObjects(Scene),
              !.gameState = st.gameState,
              !.userSelection = st.userSelection,
              !.aiSelection = st.aiSelection,
              !.aiGuesses = st.aiGuesses,
              !.attemptCount = st.attemptCount,
              !.score = st.score]

InitFrame ==
  InitApplied([state : FrameStates, clickPos : ClickPoints, k : 1..Len(Scene)])

ApplyPolygonClick ==
  /\ res = <<>>
  /\ res' = <<"viewer", handlePolygonClick(FrameRecord(arg.state), arg.clickPos)>>
  /\ UNCHANGED <<GameVars, arg>>

ApplyMaskClick ==
  /\ res = <<>>
  /\ res' = <<"app", handleMaskClick(FrameRecord(arg.state),
                                     GameObjects(Scene)[arg.k].id)>>
  /\ UNCHANGED <<GameVars, arg>>

NextFrame == ApplyPolygonClick \/ ApplyMaskClick

SpecFrame == InitFrame /\ [][NextFrame]_vars

\* ------------------------------------------------------------- claims

\* C1: a collaborator call that completes while the phase is Start was issued
\* before the reset that led there (Start is left in the step that issues a
\* call), and its completion changes nothing: the phase stays Start and score,
\* objects, selections, guess queue, attemptCount and message keep their values.
C1_StaleCompletionIsNoOp ==
  [][(gameState = START /\ Len(calls') < Len(calls))
       => UNCHANGED <<gameState, score, objects, userSelection, aiSelection,
                      aiGuesses, attemptCount, message>>]_vars

\* C2: rejecting the presented guess increments attemptCount and removes the
\* front of the guess queue, and when the queue is empty afterwards the phase
\* becomes RoundOver, the human gets exactly 10 points and the AI score stays.
C2_RejectedGuess ==
  [][(AnswerButtonsShown /\ aiGuesses # <<>> /\ No)
       => /\ attemptCount' = attemptCount + 1
          /\ Len(aiGuesses') < Len(aiGuesses)
          /\ (aiGuesses' = <<>>
                => /\ gameState' = ROUND_OVER
                   /\ score' = [user |-> score.user + 10, ai |-> score.ai])]_vars

\* C3: while a detection call is outstanding the phase is DetectingObjects (so
\* no picking phase is entered before detection has succeeded), and while any
\* collaborator call is outstanding the phase is one of DetectingObjects,
\* AiGuessing, AiPicking and HumanDescribing.
C3_PhaseWhileCallOutstanding ==
  /\ (\E i \in 1..Len(calls) : calls[i].kind = "detect")
       => gameState = LOADING_OBJECTS
  /\ calls # <<>>
       => gameState \in {LOADING_OBJECTS, AI_GUESSING, AI_PICKING, USER_DESCRIBING}

\* C4: with the small object Ball and the large object Tisch both containing
\* the click point, the first of three successive clicks there (made in
\* HumanPicking) picks Ball, the second (in HumanConfirming) picks Tisch and
\* the third picks Ball again.
C4_ClicksCycleThroughStack ==
  gameState = USER_CONFIRMING
    => /\ clicksAtStackPoint = 1 => userSelection.label = "Ball"
       /\ clicksAtStackPoint = 2 => userSelection.label = "Tisch"
       /\ clicksAtStackPoint = 3 => userSelection.label = "Ball"

\* C5: when the AI is the picker and generating the description fails (the
\* model call throws or answers with no text), the fallback description is
\* the clue and the phase goes from AiPicking to HumanGuessing, not to Error.
C5_DescriptionFallback ==
  [][(/\ gameState = AI_PICKING
      /\ \E i \in 1..MaxCalls, outcome \in DescribeOutcomes \ {"text"} :
           DescribeDone(i, outcome))
       => /\ gameState' = USER_GUESSING
          /\ message' = MsgClue(FALLBACK_DESCRIPTION)]_vars

C5_Witness ==
  /\ gameState = USER_GUESSING
  /\ aiSelection # NoObject
  /\ message = MsgClue(FALLBACK_DESCRIPTION)

\* C6: a speech failure of kind permission-denied or not-supported moves the
\* game to Error, and a failure of kind no-speech or network never does.
C6_SpeechFailureKinds ==
  [][/\ ((\E i \in 1..MaxRecognitions : SpeechError(i, "not-allowed"))
           \/ (StartRecording /\ ~speechSupported))
          => gameState' = ERROR
     /\ (\E i \in 1..MaxRecognitions, code \in {"no-speech", "network"} :
           SpeechError(i, code))
          => (gameState' = ERROR => gameState = ERROR)]_vars

\* C7: a no-speech failure in HumanDescribing leaves the phase, the picked
\* object and the score (and the rest of the game state) as they were; only
\* the message changes, to the text of the newly stored error, and the
\* listening flag is cleared so that capture can be started again.
C7_NoSpeechIsRecoverable ==
  [][(/\ gameState = USER_DESCRIBING
      /\ \E i \in 1..MaxRecognitions : SpeechError(i, "no-speech"))
       => /\ gameState' = USER_DESCRIBING
          /\ userSelection' = userSelection
          /\ score' = score
          /\ UNCHANGED <<image, objects, aiSelection, aiGuesses, attemptCount,
                         isPlayerTurnToPick, calls>>
          /\ (speechError' # speechError
                => message' = speechError' /\ message' # message)
          /\ ~isListening'
          /\ (speechHook = "callback" => ~recognitionRef')]_vars

C7_Witness ==
  /\ gameState = USER_DESCRIBING
  /\ userSelection # NoObject
  /\ ~isListening
  /\ speechError \in {SpeechErrorMessage("no-speech"), RawSpeechError("no-speech")}
  /\ message = speechError

\* C8: when detection answers with no object or fails, the phase becomes Error
\* with an empty object list, and from the Error state that shows the
\* detection failure no step enters a picking phase (resetGame, which leads
\* to Start, comes first).
C8_DetectionFailure ==
  [][/\ (\E i \in 1..MaxCalls, outcome \in ListOutcomes(Scenes \cup {<<>>}),
            rnd \in RandomDraws :
           /\ (detectObjects(outcome).settled = "rejected"
                 \/ detectObjects(outcome).value = <<>>)
           /\ DetectDone(i, outcome, rnd))
          => (gameState' = ERROR /\ objects' = <<>>)
     /\ (gameState = ERROR /\ message \in {MSG_NO_OBJECTS, MSG_DETECT_FAILED})
          => gameState' \notin {USER_PICKING, USER_CONFIRMING, AI_PICKING}]_vars

\* C9: the picker is the human in the first round of a game (at the start and
\* after each reset) and changes with each nextRound event, so it is the
\* human exactly after an even number of nextRound events.
C9_PickerAlternates ==
  isPlayerTurnToPick <=> (nextRounds % 2 = 0)

C9_Witness ==
  /\ nextRounds = 2
  /\ isPlayerTurnToPick
  /\ gameState = USER_PICKING

\* C10: between resets no score decreases; a score changes only in a step
\* that ends in RoundOver, and in such a step exactly one of the two scores
\* grows, by 2, 4, 6, 8 or 10.
C10_ScoreChanges ==
  [][(score' # score /\ ~ResetGame)
       => /\ gameState' = ROUND_OVER
          /\ \/ /\ score'.ai = score.ai
                /\ score'.user - score.user \in {2, 4, 6, 8, 10}
             \/ /\ score'.user = score.user
                /\ score'.ai - score.ai \in {2, 4, 6, 8, 10}]_vars

C10_Witness ==
  /\ gameState = ROUND_OVER
  /\ score.user = 2
  /\ score.ai = 8

\* C11: accepting the presented guess ends the round (RoundOver) and adds
\* pointsForAttempt(1 + the number of guesses rejected in this round) to the
\* AI's score, the human's score staying as it is; with no rejection before
\* the AI gets 10.
C11_GuessAccepted ==
  [][Yes
       => /\ attemptCount = 1 + guessEvents
          /\ gameState' = ROUND_OVER
          /\ score' = [user |-> score.user,
                       ai |-> score.ai + calculatePoints(1 + guessEvents)]
          /\ (guessEvents = 0 => score'.ai = score.ai + 10)]_vars

C11_Witness ==
  /\ gameState = ROUND_OVER
  /\ message = MSG_AI_WON
  /\ guessEvents = 1
  /\ score = [user |-> 0, ai |-> 8]

\* C12: when guessObjectsFromDescription answers with an empty list of
\* candidates, the phase becomes RoundOver, the human gets exactly 10 points
\* and the AI's score stays.
C12_NoCandidates ==
  [][(\E i \in 1..(MaxCalls + 1), outcome \in ListOutcomes(GuessLists) :
        /\ guessObjectsFromDescription(outcome) = Fulfilled(<<>>)
        /\ GuessDone(i, outcome))
       => /\ gameState' = ROUND_OVER
          /\ score' = [user |-> score.user + 10, ai |-> score.ai]]_vars

C12_Witness ==
  /\ gameState = ROUND_OVER
  /\ userSelection # NoObject
  /\ message = MsgAiGaveUp(userSelection.label)
  /\ score = [user |-> 10, ai |-> 0]
  /\ aiGuesses = <<>>

\* C13: in HumanGuessing a click that resolves to an object increments
\* attemptCount by one; if it resolves to the AI's object the phase becomes
\* RoundOver and the human gets pointsForAttempt(n), n the number of clicks
\* since the clue was given including this one; otherwise the phase stays
\* HumanGuessing and both scores stay.
C13_HumanGuess ==
  [][(/\ gameState = USER_GUESSING
      /\ \E clickPos \in ClickPoints :
           /\ getObjectsAtPosition(objects, clickPos) # <<>>
           /\ MaskClick(clickPos))
       => /\ attemptCount' = attemptCount + 1
          /\ IF clickedObject'.id = aiSelection.id
             THEN /\ gameState' = ROUND_OVER
                  /\ score' = [user |-> score.user + calculatePoints(guessEvents + 1),
                               ai |-> score.ai]
             ELSE /\ gameState' = USER_GUESSING
                  /\ score' = score]_vars


\* C14: pointsForAttempt gives 10, 8, 6 and 4 for the attempts 1 to 4 and 2
\* for every attempt from the fifth on, and a later attempt never gives more
\* than an earlier one.
C14_PointsTable ==
  res # <<>>
    => /\ (arg[1] = 1 => res[1] = 10)
       /\ (arg[1] = 2 => res[1] = 8)
       /\ (arg[1] = 3 => res[1] = 6)
       /\ (arg[1] = 4 => res[1] = 4)
       /\ (arg[1] >= 5 => res[1] = 2)
       /\ (arg[1] <= arg[2] => res[1] >= res[2])

C14_Witness ==
  /\ arg = <<4, 7>>
  /\ res = <<4, 2>>

\* C15: once the phase is Error it stays Error until resetGame: a step taken
\* in Error either leaves the phase Error or is resetGame, which leads to
\* Start.
C15_ErrorUntilReset ==
  [][gameState = ERROR
       => \/ gameState' = ERROR
          \/ (ResetGame /\ gameState' = START)]_vars

\* C16: at most one collaborator call (detectObjects,
\* guessObjectsFromDescription, generateDescriptionForObject) is in flight at
\* any time.
C16_OneCallInFlight ==
  Len(calls) <= 1

\* C17: resetGame (from RoundOver or Error) yields the phase Start with both
\* scores 0, no image, no objects, no selection of the human or of the AI, an
\* empty guess queue and the human as the picker.
C17_ResetGame ==
  [][ResetGame
       => /\ gameState' = START
          /\ score' = [user |-> 0, ai |-> 0]
          /\ image' = NoImage
          /\ objects' = <<>>
          /\ userSelection' = NoObject
          /\ aiSelection' = NoObject
          /\ aiGuesses' = <<>>
          /\ isPlayerTurnToPick' = TRUE]_vars

C17_Witness ==
  /\ gameState = START
  /\ message = <<>>
  /\ attemptCount > 0
  /\ image = NoImage
  /\ calls = <<>>

\* C18: nextRound from RoundOver keeps the objects, the image and both
\* scores, starts the round with no selection of the human or of the AI, an
\* empty guess queue and attemptCount 0, and enters HumanPicking or AiPicking
\* according to the flipped picker role (in AiPicking the AI then picks).
C18_NextRound ==
  [][(\E rnd \in RandomDraws : NextRound(rnd))
       => LET started == RunEffects(Cur, handleNextRound(Cur), 0)
          IN /\ started.userSelection = NoObject
             /\ started.aiSelection = NoObject
             /\ started.aiGuesses = <<>>
             /\ started.attemptCount = 0
             /\ objects' = objects
             /\ image' = image
             /\ score' = score
             /\ userSelection' = NoObject
             /\ aiGuesses' = <<>>
             /\ attemptCount' = 0
             /\ isPlayerTurnToPick' = ~isPlayerTurnToPick
             /\ gameState' = IF isPlayerTurnToPick' THEN USER_PICKING ELSE AI_PICKING
             /\ (isPlayerTurnToPick' => aiSelection' = NoObject)]_vars

C20_CandidateResolution ==
  [][LET Matching(label) ==
           {i \in 1..Len(objects) :
              ToLowerCase(objects[i].label) = ToLowerCase(label)}
         Matched(q) == {k \in 1..Len(q) : Matching(q[k].label) # {}}
         Expected(q, n) ==
           /\ attemptCount' = n
           /\ score' = score
           /\ gameState' = AI_GUESSING
           /\ IF Matched(q) = {}
              THEN /\ aiGuesses' = <<>>
                   /\ message' = message
              ELSE LET k == MinOf(Matched(q))
                       o == objects[MinOf(Matching(q[k].label))]
                   IN /\ Len(aiGuesses') = Len(q) - k + 1
                      /\ aiGuesses'[1].label = o.label
                      /\ aiGuesses'[1].mask = o.mask
                      /\ Tail(aiGuesses') = SubSeq(q, k + 1, Len(q))
                      /\ message' = MsgIsIt(o.label)
     IN (gameState = AI_GUESSING /\ userSelection # NoObject)
          => /\ \A i \in 1..(MaxCalls + 1), outcome \in ListOutcomes(GuessLists) :
                  (/\ guessObjectsFromDescription(outcome).settled = "fulfilled"
                   /\ guessObjectsFromDescription(outcome).value # <<>>
                   /\ GuessDone(i, outcome))
                    => Expected(MappedGuesses(guessObjectsFromDescription(outcome).value), 1)
             /\ (aiGuesses # <<>> /\ No)
                  => Expected(Tail(aiGuesses), attemptCount + 1)]_vars

C20_Witness ==
  /\ gameState = AI_GUESSING
  /\ userSelection # NoObject
  /\ Len(aiGuesses) = 1
  /\ aiGuesses[1].id = <<"guess", 1>>
  /\ aiGuesses[1].label = "Tisch"
  /\ aiGuesses[1].mask = BigSquare
  /\ message = MsgIsIt("Tisch")
  /\ attemptCount = 1
  /\ score = [user |-> 0, ai |-> 0]

\* C21: for an attempt number below 1 pointsForAttempt gives what it gives
\* for attempt 1.
C21_BelowOneClamped ==
  (res # <<>> /\ arg[1] < 1) => res[1] = calculatePoints(1)

\* C22: the objects returned for a point are exactly those whose polygon
\* contains it, the lower and left borders of a polygon counted in and the
\* upper and right ones not (for the rectangles and the right triangle of the
\* drawn lists: x and y from the smallest coordinate up to, not including,
\* the largest, and for the triangle left of its slanted side); they come in
\* ascending order of bounding-box area; none has a mask of fewer than three
\* points, and the point is never strictly outside the bounding box of one.
C22_HitTest ==
  res # <<>> =>
    LET objs == arg[1]
        x == arg[2][1]
        y == arg[2][2]
        hits == res[1]
        Xs(m) == {m[i][1] : i \in 1..Len(m)}
        Ys(m) == {m[i][2] : i \in 1..Len(m)}
        InBox(m) ==
          /\ \E v \in Xs(m) : v <= x
          /\ \E v \in Xs(m) : x <= v
          /\ \E v \in Ys(m) : v <= y
          /\ \E v \in Ys(m) : y <= v
        HalfOpenBox(m) ==
          /\ \E v \in Xs(m) : v <= x
          /\ \E v \in Xs(m) : x < v
          /\ \E v \in Ys(m) : v <= y
          /\ \E v \in Ys(m) : y < v
        Contains(m) ==
          IF Len(m) < 3 THEN FALSE
          ELSE IF m = Triangle THEN x >= 0 /\ y >= 0 /\ x + y < 4
          ELSE HalfOpenBox(m)
        Width(m) == CHOOSE d \in 0..(GridMax + 1) :
                      \E a, b \in Xs(m) : /\ b - a = d
                                          /\ \A v \in Xs(m) : a <= v /\ v <= b
        Height(m) == CHOOSE d \in 0..(GridMax + 1) :
                       \E a, b \in Ys(m) : /\ b - a = d
                                           /\ \A v \in Ys(m) : a <= v /\ v <= b
    IN /\ {hits[k].id : k \in 1..Len(hits)}
            = {objs[i].id : i \in {n \in 1..Len(objs) : Contains(objs[n].mask)}}
       /\ Len(hits) = Cardinality({hits[k].id : k \in 1..Len(hits)})
       /\ \A k \in 1..(Len(hits) - 1) :
            Width(hits[k].mask) * Height(hits[k].mask)
              <= Width(hits[k + 1].mask) * Height(hits[k + 1].mask)
       /\ \A k \in 1..Len(hits) :
            /\ Len(hits[k].mask) >= 3
            /\ InBox(hits[k].mask)

C22_Witness ==
  /\ res # <<>>
  /\ arg[1] = StackScene
  /\ arg[2] = <<1, 1>>
  /\ Len(res[1]) = 3
  /\ res[1][1].label = "Ball"
  /\ res[1][3].label = "Tisch"

\* C23: a transcript delivered by the speech capture while the phase is
\* HumanDescribing moves the game to AiGuessing and issues exactly one
\* guessObjectsFromDescription request, for the transcript without the
\* spoken prefix.
C23_TranscriptDelivered ==
  [][\A i \in 1..MaxRecognitions, text \in Transcripts :
       (gameState = USER_DESCRIBING /\ SpeechResult(i, text))
         => /\ gameState' = AI_GUESSING
            /\ message' = MsgHint(CleanTranscript(text))
            /\ Len(calls') = Len(calls) + 1
            /\ calls'[Len(calls')].kind = "guess"
            /\ recognitions[i].image = image]_vars

\* C24: in AiPicking the object the AI has picked is one of the objects of
\* the list; for a list that is not empty every object of it is picked for
\* some draw; and when the description arrives in AiPicking the phase becomes
\* HumanGuessing with attemptCount 0.
C24_AiPick ==
  [][/\ (gameState = AI_PICKING /\ aiSelection # NoObject)
          => \E k \in 1..Len(objects) : aiSelection = objects[k]
     /\ (gameState' = AI_PICKING /\ aiSelection' # NoObject)
          => \E k \in 1..Len(objects') : aiSelection' = objects'[k]
     /\ (gameState \in {ROUND_OVER, AI_PICKING} /\ image # NoImage /\ objects # <<>>)
          => \A k \in 1..Len(objects) : \E rnd \in RandomDraws :
               AiPickingEffect([Cur EXCEPT !.gameState = AI_PICKING], Cur, rnd).aiSelection
                 = objects[k]
     /\ (/\ gameState = AI_PICKING
         /\ \E i \in 1..(MaxCalls + 1), outcome \in DescribeOutcomes :
              DescribeDone(i, outcome))
          => /\ gameState' = USER_GUESSING
             /\ attemptCount' = 0]_vars

C24_Witness ==
  /\ gameState = USER_GUESSING
  /\ attemptCount = 0
  /\ guessEvents = 0
  /\ Len(objects) = 3
  /\ aiSelection = objects[3]
  /\ message = MsgClue("ist rot und rund")

\* C25: when a list of candidates arrives in AiGuessing of which no label is
\* the label of an object, the round ends: the phase becomes RoundOver and
\* the human gets 10 points.
C25_AllUnmatchedEndsRound ==
  [][\A i \in 1..(MaxCalls + 1), outcome \in ListOutcomes(GuessLists) :
       (/\ gameState = AI_GUESSING
        /\ userSelection # NoObject
        /\ guessObjectsFromDescription(outcome).settled = "fulfilled"
        /\ guessObjectsFromDescription(outcome).value # <<>>
        /\ \A k \in 1..Len(guessObjectsFromDescription(outcome).value) :
             FindByLabel(objects, guessObjectsFromDescription(outcome).value[k]) = NoObject
        /\ GuessDone(i, outcome))
         => /\ gameState' = ROUND_OVER
            /\ score' = [user |-> score.user + 10, ai |-> score.ai]]_vars

\* C26: in AiGuessing the candidate at the front of the queue has been
\* presented at most once (the presentation does not run again because of
\* its own update of the queue).
C26_PresentedOnce ==
  gameState = AI_GUESSING => presentCount <= 1

\* C27: the answers Ja and Nein are given only while the guess queue is not
\* empty and the candidate at its front is the one asked about; so the AI
\* gets no points in a state with an empty queue.
C27_AnswersNeedCandidate ==
  [][(Yes \/ No)
       => /\ aiGuesses # <<>>
          /\ message = MsgIsIt(Head(aiGuesses).label)]_vars

\* C28: in HumanGuessing the selected-object id handed to the image viewer
\* is the same whichever object of the list the AI has picked: the state
\* that differs from the current one only in the AI's pick hands the viewer
\* the same id.
C28_PickNotShown ==
  (gameState = USER_GUESSING /\ aiSelection # NoObject)
    => \A k \in 1..Len(objects) :
         SelectedObjectId([Cur EXCEPT !.aiSelection = objects[k]])
           = SelectedObjectId(Cur)

\* C29: the selections match the phase: in HumanConfirming, HumanDescribing
\* and AiGuessing the human's selection is an object of the list and the AI
\* has none; in HumanGuessing the AI's selection is an object of the list and
\* the human has none; in Start there is neither.
C29_SelectionsMatchPhase ==
  /\ gameState \in {USER_CONFIRMING, USER_DESCRIBING, AI_GUESSING}
       => /\ \E k \in 1..Len(objects) : userSelection = objects[k]
          /\ aiSelection = NoObject
  /\ gameState = USER_GUESSING
       => /\ \E k \in 1..Len(objects) : aiSelection = objects[k]
          /\ userSelection = NoObject
  /\ gameState = START
       => /\ userSelection = NoObject
          /\ aiSelection = NoObject

\* C30: a click on an object in a phase other than HumanPicking,
\* HumanConfirming and HumanGuessing leaves the phase, both selections,
\* attemptCount, the guess queue and both scores as they were.
C30_ClickElsewhere ==
  (res # <<>> /\ arg.state.gameState \notin {USER_PICKING, USER_CONFIRMING, USER_GUESSING})
    => /\ res[2].gameState = arg.state.gameState
       /\ res[2].userSelection = arg.state.userSelection
       /\ res[2].aiSelection = arg.state.aiSelection
       /\ res[2].attemptCount = arg.state.attemptCount
       /\ res[2].aiGuesses = arg.state.aiGuesses
       /\ res[2].score = arg.state.score

C30_Witness ==
  /\ res # <<>>
  /\ res[1] = "app"
  /\ arg.state.gameState = USER_DESCRIBING
  /\ arg.state.userSelection = GameObjects(Scene)[1]
  /\ arg.k = 2
  /\ res[2].gameState = USER_DESCRIBING
  /\ res[2].userSelection = GameObjects(Scene)[1]

====
